---- MODULE Spec2Model ----
(***************************************************************************)
(* Model of src/src/blocky.ts: the xorshift engine kept in the module-level *)
(* array randseed, the module-level defaultOptions object, and the two      *)
(* exported operations createBuffer and createDataURL.                      *)
(*                                                                          *)
(* JavaScript numbers are modelled exactly:                                 *)
(*   - a lane of randseed is a JS Number; it is held as [lo, hi] with value *)
(*     lo + hi * 2^32, lo = ToInt32(value), so that a value outside the     *)
(*     signed 32-bit range is representable (hi # 0);                       *)
(*   - the bitwise operators work on ToInt32 of their operands;             *)
(*   - the floating point expressions of createHSL / hslToRgb are computed  *)
(*     as exact rationals over arbitrary-precision integers (digit          *)
(*     sequences in base 2^15).                                             *)
(*                                                                          *)
(* Let, Let2 and Let3 bind the value of an expression to a name, so that an *)
(* operator evaluates each of its operands once.                            *)
(***************************************************************************)
EXTENDS Integers, Sequences, FiniteSets, TLC

VARIABLES randseed, defaultOptions, log, raster

vars == <<randseed, defaultOptions, log, raster>>

Let(e, F(_)) == CHOOSE r \in {F(x) : x \in {e}} : TRUE
Let2(e1, e2, F(_, _)) == CHOOSE r \in {F(x, y) : x \in {e1}, y \in {e2}} : TRUE
Let3(e1, e2, e3, F(_, _, _)) ==
    CHOOSE r \in {F(x, y, z) : x \in {e1}, y \in {e2}, z \in {e3}} : TRUE

(***************************************************************************)
(* Bounds of the model.                                                     *)
(***************************************************************************)
\* calls of createBuffer / createDataURL in one run of the process
MaxCalls == 2
\* the valid sizes the calls pass are 1..MaxSize, at the scale MaxScale
MaxSize == 2
MaxScale == 2
\* the calls run are those whose image is at most MaxWidth pixels wide
MaxWidth == 24
\* the grids and scales the compositor is run on by itself
MaxRasterSize == 2
MaxRasterScale == 2

(***************************************************************************)
(* 32-bit words.                                                            *)
(***************************************************************************)
\* 2^31 - 1, the largest int32; (1 << 31) >>> 0 of rand() is Int32Max + 1
Int32Max == 2147483647
\* 2^16 and 2^15: a word is split in two halves to subtract without overflow
Half == 65536
HalfSign == 32768

\* 2^n for 0 <= n <= 30
Pow2(n) == 2^n

\* the low 31 bits of an int32, as a natural
Low31(a) == IF a >= 0 THEN a ELSE (a + Int32Max) + 1

\* a ^ b on one bit and on four bits
XorBit(a, b) == (a + b) % 2

XorNibble ==
    [a \in 0..15 |-> [b \in 0..15 |->
        ((XorBit(a % 2, b % 2) + 2 * XorBit((a \div 2) % 2, (b \div 2) % 2))
         + 4 * XorBit((a \div 4) % 2, (b \div 4) % 2))
        + 8 * XorBit(a \div 8, b \div 8)]]

\* a ^ b on naturals below 2^n: the two halves of the bits separately
RECURSIVE XorBits(_, _, _)
XorBits(a0, b0, n0) ==
    Let3(a0, b0, n0, LAMBDA a, b, n :
        IF a = 0 THEN b
        ELSE IF b = 0 THEN a
        ELSE IF n <= 4 THEN XorNibble[a][b]
        ELSE Let(Pow2(n \div 2), LAMBDA m :
                 XorBits(a % m, b % m, n \div 2)
                 + m * XorBits(a \div m, b \div m, n - (n \div 2))))

XorNat(a, b) == XorBits(a, b, 31)

\* a ^ b on int32 operands
Xor(a0, b0) ==
    Let2(a0, b0, LAMBDA a, b :
        Let(XorNat(Low31(a), Low31(b)), LAMBDA low :
            IF (a < 0) # (b < 0) THEN (low - Int32Max) - 1 ELSE low))

\* a << k on an int32 operand, 1 <= k <= 30: the bits shifted out are lost
Shl(a, k) ==
    Let2(a % Pow2(32 - k), Pow2(32 - k), LAMBDA low, m :
        IF low >= m \div 2 THEN (low - m) * Pow2(k) ELSE low * Pow2(k))

\* a >>> k on an int32 operand, k >= 1: zero-filling
ShrLogical(a, k) ==
    (Low31(a) \div Pow2(k)) + (IF a < 0 THEN Pow2(31 - k) ELSE 0)

\* a >> k on an int32 operand: sign-propagating
Sar(a, k) == a \div Pow2(k)

\* the JS Number hi16 * 2^16 + lo16 as a lane [lo, hi]: value = lo + hi * 2^32
Lane(hi16, lo16) ==
    Let2(hi16 + (lo16 \div Half), lo16 % Half, LAMBDA h, l :
        Let((h + HalfSign) \div Half, LAMBDA q :
            [lo |-> (h - q * Half) * Half + l, hi |-> q]))

\* the lane that holds the int32 w
LaneOf(w) == [lo |-> w, hi |-> 0]

\* (lane << 5) - lane + code of createRandSeed, as a JS Number: the shift
\* works on ToInt32(lane); the subtraction and the addition are Number
\* arithmetic and are not reduced to 32 bits
FoldLane(lane0, code) ==
    Let2(lane0, Shl(lane0.lo, 5), LAMBDA lane, s :
        Let(Lane((s \div Half) - (lane.lo \div Half),
                 ((s % Half) - (lane.lo % Half)) + code),
            LAMBDA d : [lo |-> d.lo, hi |-> d.hi - lane.hi]))

\* the iterations i = from .. to - 1 of the loop of createRandSeed, in
\* order (i counts from 0 as in the code; lanes and chars count from 1)
RECURSIVE FoldFrom(_, _, _, _)
FoldFrom(rs0, seed, from0, to0) ==
    Let3(rs0, from0, to0, LAMBDA rs, from, to :
        IF to <= from THEN rs
        ELSE IF to = from + 1
          THEN [rs EXCEPT ![(from % 4) + 1] =
                   FoldLane(rs[(from % 4) + 1], seed[from + 1])]
        ELSE FoldFrom(FoldFrom(rs, seed, from, (from + to) \div 2),
                      seed, (from + to) \div 2, to))

\* createRandSeed(seed): folds the char codes of seed into the lanes in place
createRandSeed(rs, seed0) ==
    Let(seed0, LAMBDA seed : FoldFrom(rs, seed, 0, Len(seed)))

\* rand(): the xorshift step; val is the new lane 3, and the value returned
\* is unsigned32(val) / 2^31
rand(rs0) ==
    Let(rs0, LAMBDA rs :
        Let(Xor(rs[1].lo, Shl(rs[1].lo, 11)), LAMBDA t :
            Let(Xor(Xor(Xor(rs[4].lo, Sar(rs[4].lo, 19)), t), Sar(t, 8)),
                LAMBDA w : [rs |-> <<rs[2], rs[3], rs[4], LaneOf(w)>>,
                            val |-> w])))

\* n successive draws: the values drawn, in order, and the engine afterwards
RECURSIVE Draws(_, _)
Draws(rs, n0) ==
    Let(n0, LAMBDA n :
        IF n = 0 THEN [vals |-> <<>>, rs |-> rs]
        ELSE Let(rand(rs), LAMBDA d :
                 Let(Draws(d.rs, n - 1), LAMBDA rest :
                     [vals |-> <<d.val>> \o rest.vals, rs |-> rest.rs])))

(***************************************************************************)
(* Arbitrary-precision integers: a natural is the sequence of its digits in *)
(* base Base, least significant first, without leading zero digits; an      *)
(* integer is [neg, mag].  JS computes createHSL and hslToRgb in doubles;   *)
(* here every value is the exact rational, so the two agree unless a        *)
(* channel lies within rounding error (about 1e-13) of k + 1/2.             *)
(***************************************************************************)
Base == 32768

RECURSIVE NTrim(_)
NTrim(a0) ==
    Let(a0, LAMBDA a :
        IF a = <<>> THEN <<>>
        ELSE IF a[Len(a)] = 0 THEN NTrim(SubSeq(a, 1, Len(a) - 1))
        ELSE a)

RECURSIVE NFromInt(_)
NFromInt(n0) ==
    Let(n0, LAMBDA n :
        IF n = 0 THEN <<>> ELSE <<n % Base>> \o NFromInt(n \div Base))

RECURSIVE NAddC(_, _, _)
NAddC(a0, b0, c0) ==
    Let3(a0, b0, c0, LAMBDA a, b, c :
        IF a = <<>> /\ b = <<>> THEN (IF c = 0 THEN <<>> ELSE <<c>>)
        ELSE Let(((IF a = <<>> THEN 0 ELSE a[1])
                  + (IF b = <<>> THEN 0 ELSE b[1])) + c,
                 LAMBDA t :
                     <<t % Base>> \o NAddC(IF a = <<>> THEN <<>> ELSE Tail(a),
                                           IF b = <<>> THEN <<>> ELSE Tail(b),
                                           t \div Base)))

NAdd(a, b) == NAddC(a, b, 0)

\* a - b - c for a >= b + c, before trimming
RECURSIVE NSubB(_, _, _)
NSubB(a0, b0, c0) ==
    Let3(a0, b0, c0, LAMBDA a, b, c :
        IF a = <<>> THEN <<>>
        ELSE Let((a[1] - (IF b = <<>> THEN 0 ELSE b[1])) - c,
                 LAMBDA t :
                     <<t % Base>> \o NSubB(Tail(a),
                                           IF b = <<>> THEN <<>> ELSE Tail(b),
                                           IF t < 0 THEN 1 ELSE 0)))

NSub(a, b) == NTrim(NSubB(a, b, 0))

\* -1, 0 or 1 as a < b, a = b or a > b, for a and b of the same length
RECURSIVE NCmpFrom(_, _, _)
NCmpFrom(a, b, i0) ==
    Let(i0, LAMBDA i :
        IF i = 0 THEN 0
        ELSE IF a[i] < b[i] THEN -1
        ELSE IF a[i] > b[i] THEN 1
        ELSE NCmpFrom(a, b, i - 1))

NCmp(a0, b0) ==
    Let2(a0, b0, LAMBDA a, b :
        IF Len(a) < Len(b) THEN -1
        ELSE IF Len(a) > Len(b) THEN 1
        ELSE NCmpFrom(a, b, Len(a)))

RECURSIVE NMulDigit(_, _, _)
NMulDigit(a0, d, c0) ==
    Let2(a0, c0, LAMBDA a, c :
        IF a = <<>> THEN (IF c = 0 THEN <<>> ELSE <<c>>)
        ELSE Let(a[1] * d + c, LAMBDA t :
                 <<t % Base>> \o NMulDigit(Tail(a), d, t \div Base)))

NShift1(a0) == Let(a0, LAMBDA a : IF a = <<>> THEN <<>> ELSE <<0>> \o a)

RECURSIVE NMul(_, _)
NMul(a0, b0) ==
    Let2(a0, b0, LAMBDA a, b :
        IF a = <<>> \/ b = <<>> THEN <<>>
        ELSE Let(b[1], LAMBDA d :
                 NAdd(NTrim(NMulDigit(a, d, 0)), NShift1(NMul(a, Tail(b))))))

\* 2^bits as a natural
NPow2(bits) ==
    [i \in 1..((bits \div 15) + 1) |->
        IF i = (bits \div 15) + 1 THEN Pow2(bits % 15) ELSE 0]

\* floor(a / 2^bits)
NShr(a0, bits) ==
    Let3(a0, bits \div 15, Pow2(bits % 15), LAMBDA a, k, m :
        IF Len(a) <= k THEN <<>>
        ELSE NTrim([i \in 1..(Len(a) - k) |->
                      (a[k + i] \div m)
                      + (IF k + i < Len(a)
                           THEN (a[k + i + 1] % m) * (Base \div m)
                         ELSE 0)]))

\* a natural of at most two digits as a number
NToInt(a0) ==
    Let(a0, LAMBDA a :
        IF a = <<>> THEN 0
        ELSE IF Len(a) = 1 THEN a[1]
        ELSE a[1] + Base * a[2])

Z(n0) ==
    Let(n0, LAMBDA n :
        IF n < 0 THEN [neg |-> TRUE, mag |-> NFromInt(-n)]
        ELSE [neg |-> FALSE, mag |-> NFromInt(n)])

ZNeg(x0) ==
    Let(x0, LAMBDA x :
        IF x.mag = <<>> THEN x ELSE [neg |-> ~x.neg, mag |-> x.mag])

ZAdd(x0, y0) ==
    Let2(x0, y0, LAMBDA x, y :
        IF x.neg = y.neg THEN [neg |-> x.neg, mag |-> NAdd(x.mag, y.mag)]
        ELSE Let(NCmp(x.mag, y.mag), LAMBDA c :
                 IF c = 0 THEN [neg |-> FALSE, mag |-> <<>>]
                 ELSE IF c > 0
                   THEN [neg |-> x.neg, mag |-> NSub(x.mag, y.mag)]
                 ELSE [neg |-> y.neg, mag |-> NSub(y.mag, x.mag)]))

ZSub(x, y) == ZAdd(x, ZNeg(y))

ZMul(x0, y0) ==
    Let2(x0, y0, LAMBDA x, y :
        Let(NMul(x.mag, y.mag), LAMBDA m :
            [neg |-> (m # <<>>) /\ (x.neg # y.neg), mag |-> m]))

\* x < y
ZLess(x, y) == ZSub(x, y).neg

\* floor(x / 2^bits) as a number (the quotient is small)
ZFloorShr(x0, bits) ==
    Let(x0, LAMBDA x :
        Let(NShr(x.mag, bits), LAMBDA q :
            IF ~x.neg THEN NToInt(q)
            ELSE IF NMul(q, NPow2(bits)) = x.mag THEN -NToInt(q)
            ELSE -(NToInt(q) + 1)))

\* 2^31 = (1 << 31) >>> 0, the divisor of rand()
D == [neg |-> FALSE, mag |-> <<0, 0, 2>>]
TwoD == ZMul(Z(2), D)
ThreeD == ZMul(Z(3), D)
FiveD == ZMul(Z(5), D)
TenD == ZMul(Z(10), D)

\* the numerator unsigned32(w) of the value rand() returns for lane 3 = w
Unsigned(w0) ==
    Let(w0, LAMBDA w : IF w >= 0 THEN Z(w) ELSE ZAdd(Z(Low31(w)), D))

(***************************************************************************)
(* createHSL and hslToRgb.  With H, S, L1..L4 the numerators of the six     *)
(* draws (each draw is numerator / 2^31, D = 2^31):                         *)
(*   h = H / D,  s = (3 S + 2 D) / (5 D),  l = (L1 + L2 + L3 + L4) / (4 D)  *)
(* The record createHSL returns holds H = the numerator of h over D,        *)
(* S = the numerator of s over 5 D and L = the numerator of l over 4 D.     *)
(* In hslToRgb, q and p are numerators over 20 D^2, t is a numerator over   *)
(* 3 D, and a channel r, g or b is a numerator X over 20 D^3, so that       *)
(*   Math.round(r * 255) = floor((51 X + 2 D^3) / (4 D^3)),  4 D^3 = 2^95.  *)
(***************************************************************************)
\* createHSL with s = rand() * 0.6 + 0.6, which leaves [0, 1]
createHSLWide(vals0) ==
    Let(vals0, LAMBDA vals :
        [H |-> Unsigned(vals[1]),
         S |-> ZAdd(ZMul(Z(3), Unsigned(vals[2])), ThreeD),
         L |-> ZAdd(ZAdd(Unsigned(vals[3]), Unsigned(vals[4])),
                    ZAdd(Unsigned(vals[5]), Unsigned(vals[6])))])

createHSL(vals0) ==
    Let(vals0, LAMBDA vals :
        [H |-> Unsigned(vals[1]),
         S |-> ZAdd(ZMul(Z(3), Unsigned(vals[2])), TwoD),
         L |-> ZAdd(ZAdd(Unsigned(vals[3]), Unsigned(vals[4])),
                    ZAdd(Unsigned(vals[5]), Unsigned(vals[6])))])

\* hue2rgb(p, q, t), as a numerator over 20 D^3
hue2rgb(P0, Q0, T0) ==
    Let3(P0, Q0, T0, LAMBDA P, Q, Ta :
        Let(IF Ta.neg THEN ZAdd(Ta, ThreeD) ELSE Ta, LAMBDA Tb :
            Let2(IF ZLess(ThreeD, Tb) THEN ZSub(Tb, ThreeD) ELSE Tb,
                 ZMul(Z(2), ZSub(Q, P)),
                 LAMBDA T, QP2 :
                     IF ZLess(ZMul(Z(2), T), D)
                       THEN ZAdd(ZMul(P, D), ZMul(QP2, T))
                     ELSE IF ZLess(ZMul(Z(2), T), ThreeD)
                       THEN ZMul(Q, D)
                     ELSE IF ZLess(T, TwoD)
                       THEN ZAdd(ZMul(P, D), ZMul(QP2, ZSub(TwoD, T)))
                     ELSE ZMul(P, D))))

\* Math.round(x * 255) for x = X / (20 D^3)
Round255(X) ==
    ZFloorShr(ZAdd(ZMul(Z(51), X), [neg |-> FALSE, mag |-> NPow2(94)]), 95)

\* q of hslToRgb, over 20 D^2
HslQ(hsl) ==
    IF ZLess(hsl.L, TwoD)
      THEN ZMul(hsl.L, ZAdd(FiveD, hsl.S))
    ELSE ZSub(ZAdd(ZMul(FiveD, hsl.L), ZMul(ZMul(Z(4), D), hsl.S)),
              ZMul(hsl.L, hsl.S))

hslToRgb(hsl0) ==
    Let(hsl0, LAMBDA hsl :
        IF hsl.S.mag = <<>>
          THEN Let(Round255(ZMul(ZMul(FiveD, D), hsl.L)), LAMBDA c :
                   <<c, c, c>>)
        ELSE Let2(HslQ(hsl), ZMul(Z(3), hsl.H), LAMBDA Q, T :
                  Let(ZSub(ZMul(TenD, hsl.L), Q), LAMBDA P :
                      <<Round255(hue2rgb(P, Q, ZAdd(T, D))),
                        Round255(hue2rgb(P, Q, T)),
                        Round255(hue2rgb(P, Q, ZSub(T, D)))>>)))

(***************************************************************************)
(* createImageData.                                                         *)
(***************************************************************************)
\* Math.floor(rand() * 2.3) for the draw of numerator u = unsigned32(w):
\* floor(23 u / (10 * 2^31)).  23 u differs from every multiple of
\* 10 * 2^31 other than 0 by at least 1, so the double product has the same
\* integer part.  With u = a * 2^16 + b the quotient is computed in halves:
\* floor(23 u / 2^16) = 23 a + floor(23 b / 2^16), and 10 * 2^31 / 2^16 is
\* 5 * 2^16.
\* the cell of Math.floor(rand() * 3.3)
CellOfThirds(w) ==
    Let2((w \div Half) % Half, w % Half, LAMBDA a, b :
        (33 * a + ((33 * b) \div Half)) \div (5 * Half))

Cell(w) ==
    Let2((w \div Half) % Half, w % Half, LAMBDA a, b :
        (23 * a + ((23 * b) \div Half)) \div (5 * Half))

Reverse(s0) == Let(s0, LAMBDA s : [i \in 1..Len(s) |-> s[(Len(s) + 1) - i]])

\* Math.ceil(width / 2)
CeilHalf(width) == (width + 1) \div 2

\* row.concat(row.slice(0, mirrorWidth)), the mirror half not reversed
RowRepeated(row0, mirrorWidth) ==
    Let(row0, LAMBDA row : row \o SubSeq(row, 1, mirrorWidth))

\* row.concat(row.slice(0, mirrorWidth).reverse())
Row(row0, mirrorWidth) ==
    Let(row0, LAMBDA row : row \o Reverse(SubSeq(row, 1, mirrorWidth)))

\* the cells of the draws vals, in order (\o yields the sequence itself)
Cells(vals0) ==
    Let(vals0, LAMBDA vals : [x \in 1..Len(vals) |-> Cell(vals[x])] \o <<>>)

RECURSIVE Rows(_, _, _, _)
Rows(rs, height0, dataWidth, mirrorWidth) ==
    Let(height0, LAMBDA height :
        IF height = 0 THEN [data |-> <<>>, vals |-> <<>>, rs |-> rs]
        ELSE Let(Draws(rs, dataWidth), LAMBDA d :
                 Let2(Row(Cells(d.vals), mirrorWidth),
                      Rows(d.rs, height - 1, dataWidth, mirrorWidth),
                      LAMBDA row, rest :
                          [data |-> row \o rest.data,
                           vals |-> d.vals \o rest.vals,
                           rs |-> rest.rs])))

\* createImageData(width, height) for height >= 0 (Array(height) throws a
\* RangeError for a negative height, see createBuffer): the cells row by
\* row, the draws made, and the engine afterwards
createImageData(rs, width, height) ==
    Rows(rs, height, CeilHalf(width), width - CeilHalf(width))

(***************************************************************************)
(* Options.  An optional field of optsParam is <<>> (undefined) or <<v>>.   *)
(* A string is the sequence of its char codes; a colour is <<r, g, b>>.     *)
(***************************************************************************)
\* a ?? b
Nullish(a, b) == IF a = <<>> THEN b ELSE a[1]

Opt(size, scale, seed, fgColor, bgColor, spotColor) ==
    [size |-> size, scale |-> scale, seed |-> seed,
     fgColor |-> fgColor, bgColor |-> bgColor, spotColor |-> spotColor]

DefaultScale == 24
DefaultSize == 7
ChannelMax == 255

\* the defaultOptions object as the module creates it
InitialDefaultOptions ==
    [scale |-> DefaultScale, size |-> DefaultSize, seed |-> <<>>,
     fgColor |-> <<0, 0, 0>>,
     bgColor |-> <<ChannelMax, ChannelMax, ChannelMax>>,
     spotColor |-> <<0, 0, 0>>]

(***************************************************************************)
(* The compositor of createBuffer: the pixel loop over png.data.            *)
(* png.data is the sequence of the bytes of the Buffer; byte offset o of    *)
(* the code is element o + 1.  A Buffer stores a value modulo 256 and       *)
(* ignores a write outside its length.                                      *)
(***************************************************************************)
\* new PNG({width, height, colorType}) of pngjs: the sample buffer is
\* allocated zero-filled when both dimensions are positive, else data is null
\* (held as <<>>)
NewPNG(width, height) ==
    [width |-> width, height |-> height,
     data |-> IF width > 0 /\ height > 0
                THEN [o \in 1..(4 * width * height) |-> 0] \o <<>>
              ELSE <<>>]

\* png.data[o] = v
Put(data0, o0, v) ==
    Let2(data0, o0, LAMBDA data, o :
        IF o + 1 \in 1..Len(data) THEN [data EXCEPT ![o + 1] = v % 256]
        ELSE data)

\* the body of the x loop: the four stores of one pixel
PutPixel(data0, o0, color) ==
    Let2(data0, o0, LAMBDA data, o :
        IF o >= 0 /\ o + 4 <= Len(data)
          THEN [data EXCEPT ![o + 1] = color[1] % 256,
                            ![o + 2] = color[2] % 256,
                            ![o + 3] = color[3] % 256,
                            ![o + 4] = ChannelMax]
        ELSE Put(Put(Put(Put(data, o, color[1]), o + 1, color[2]),
                     o + 2, color[3]),
                 o + 3, ChannelMax))

\* idx + (x + y * scale) * 4: the rows of a block taken scale pixels apart
PixelOffsetInBlock(idx, x, y, size, scale) == idx + (x + y * scale) * 4

\* the offset o of the pixel (x, y) of the block that starts at idx
PixelOffset(idx, x, y, size, scale) == idx + (x + y * size * scale) * 4

\* the offset idx of the block of cell i
BlockOffset(i, width, size, scale) ==
    (((i \div width) * size * scale) + (i % width)) * scale * 4

\* the switch on imageData[i]
CellColor(cell, options) ==
    IF cell = 0 THEN options.bgColor
    ELSE IF cell = 1 THEN options.fgColor
    ELSE options.spotColor

\* the iterations x = from .. to - 1 of the x loop, in order
RECURSIVE XLoop(_, _, _, _, _, _, _, _)
XLoop(data0, idx, color, y, size, scale, from0, to0) ==
    Let3(data0, from0, to0, LAMBDA data, from, to :
        IF to <= from THEN data
        ELSE IF to = from + 1
          THEN PutPixel(data, PixelOffset(idx, from, y, size, scale), color)
        ELSE XLoop(XLoop(data, idx, color, y, size, scale,
                         from, (from + to) \div 2),
                   idx, color, y, size, scale, (from + to) \div 2, to))

\* the iterations y = from .. to - 1 of the y loop, in order
RECURSIVE YLoop(_, _, _, _, _, _, _)
YLoop(data0, idx, color, size, scale, from0, to0) ==
    Let3(data0, from0, to0, LAMBDA data, from, to :
        IF to <= from THEN data
        ELSE IF to = from + 1
          THEN XLoop(data, idx, color, from, size, scale, 0, scale)
        ELSE YLoop(YLoop(data, idx, color, size, scale,
                         from, (from + to) \div 2),
                   idx, color, size, scale, (from + to) \div 2, to))

\* the iterations i = from .. to - 1 of the loop over imageData, in order
RECURSIVE CellLoop(_, _, _, _, _, _)
CellLoop(data0, imageData, width, options, from0, to0) ==
    Let3(data0, from0, to0, LAMBDA data, from, to :
        IF to <= from THEN data
        ELSE IF to = from + 1
          THEN Let2(BlockOffset(from, width, options.size, options.scale),
                    CellColor(imageData[from + 1], options),
                    LAMBDA idx, color :
                        YLoop(data, idx, color, options.size, options.scale,
                              0, options.scale))
        ELSE CellLoop(CellLoop(data, imageData, width, options,
                               from, (from + to) \div 2),
                      imageData, width, options, (from + to) \div 2, to))

\* Math.sqrt(n) for the square n = imageData.length
Sqrt(n) == CHOOSE k \in 0..n : k * k = n

\* lines 128-167: the png object after the pixel loop
Composite(options0, imageData0) ==
    Let2(options0, imageData0, LAMBDA options, imageData :
        Let2(NewPNG(options.size * options.scale,
                    options.size * options.scale),
             Sqrt(Len(imageData)),
             LAMBDA png, width :
                 [png EXCEPT !.data = CellLoop(png.data, imageData, width,
                                               options, 0, Len(imageData))]))

(***************************************************************************)
(* The encoder (pngjs, an external library) and the data URL.               *)
(***************************************************************************)
\* the PNG file signature
PngSignature == <<137, 80, 78, 71, 13, 10, 26, 10>>

\* PNG.sync.write(png, {}): the library's compressed encoding is not
\* modelled; the bytes returned are held as a lossless, deterministic
\* serialisation of the png object (signature, dimensions, samples)
PngSyncWrite(png0) ==
    Let(png0, LAMBDA png :
        PngSignature \o <<png.width, png.height>> \o png.data)

\* the char code of the base64 digit of value v
Base64Char(v) ==
    IF v < 26 THEN 65 + v
    ELSE IF v < 52 THEN 97 + (v - 26)
    ELSE IF v < 62 THEN 48 + (v - 52)
    ELSE IF v = 62 THEN 43
    ELSE 47

\* the three bytes of group g of buf as one number, absent bytes as 0
Base64Group(buf, g) ==
    ((IF 3 * g + 1 <= Len(buf) THEN buf[3 * g + 1] ELSE 0) * 65536
     + (IF 3 * g + 2 <= Len(buf) THEN buf[3 * g + 2] ELSE 0) * 256)
    + (IF 3 * g + 3 <= Len(buf) THEN buf[3 * g + 3] ELSE 0)

\* the base64 digits of buf without the '=' padding
Base64Unpadded(buf0) ==
    Let2(buf0, Len(buf0), LAMBDA buf, n :
        [k \in 1..((4 * n + 2) \div 3) |->
            Let2(Base64Group(buf, (k - 1) \div 4), (k - 1) % 4,
                 LAMBDA group, j :
                     IF j = 0 THEN Base64Char(group \div 262144)
                     ELSE IF j = 1 THEN Base64Char((group \div 4096) % 64)
                     ELSE IF j = 2 THEN Base64Char((group \div 64) % 64)
                     ELSE Base64Char(group % 64))] \o <<>>)

\* buf.toString('base64')
Base64(buf0) ==
    Let2(buf0, Len(buf0), LAMBDA buf, n :
        [k \in 1..(4 * ((n + 2) \div 3)) |->
            Let3(Base64Group(buf, (k - 1) \div 4), (k - 1) % 4,
                 n - 3 * ((k - 1) \div 4),
                 LAMBDA group, j, have :
                     IF j = 0 THEN Base64Char(group \div 262144)
                     ELSE IF j = 1 THEN Base64Char((group \div 4096) % 64)
                     ELSE IF j = 2
                       THEN (IF have >= 2
                               THEN Base64Char((group \div 64) % 64)
                             ELSE 61)
                     ELSE (IF have >= 3 THEN Base64Char(group % 64)
                           ELSE 61))] \o <<>>)

\* 'data:image/png;base64,'
DataUrlPrefix ==
    <<100, 97, 116, 97, 58, 105, 109, 97, 103, 101, 47, 112, 110, 103, 59,
      98, 97, 115, 101, 54, 52, 44>>

(***************************************************************************)
(* createBuffer(optsParam), started with engine rs and defaults dflt.       *)
(* rnd is the string Math.floor(Math.random() * 10 ** 16).toString(16);     *)
(* enc is the outcome of the encoder on a png without sample buffer, which  *)
(* the source does not determine.                                           *)
(* The result holds the engine and the defaults as the call leaves them and *)
(* what the call computed; options is the object the code calls options,    *)
(* an alias of defaultOptions.                                              *)
(***************************************************************************)
NoPng == [width |-> 0, height |-> 0, data |-> <<>>]

\* lines 112-116
MergeFirst(dflt, optsParam, rnd) ==
    [dflt EXCEPT !.scale = Nullish(optsParam.scale, @),
                 !.size = Nullish(optsParam.size, @),
                 !.seed = Nullish(optsParam.seed, rnd)]

\* lines 122-124
MergeColors(options, optsParam, rgb) ==
    [options EXCEPT !.fgColor = Nullish(optsParam.fgColor, rgb),
                    !.bgColor = Nullish(optsParam.bgColor, @),
                    !.spotColor = Nullish(optsParam.spotColor, rgb)]

\* lines 126-169, for options.size >= 0
Render(base0, enc) ==
    Let(base0, LAMBDA base :
        Let(createImageData(base.randseed, base.defaultOptions.size,
                            base.defaultOptions.size),
            LAMBDA img :
                Let(Composite(base.defaultOptions, img.data), LAMBDA png :
                    Let(png.data # <<>> \/ enc = "returned", LAMBDA ok :
                        [base EXCEPT
                            !.randseed = img.rs,
                            !.vals = @ \o img.vals,
                            !.imageData = img.data,
                            !.png = png,
                            !.status = IF ok THEN "returned"
                                       ELSE "EncodeError",
                            !.buf = IF ok THEN PngSyncWrite(png)
                                    ELSE <<>>]))))

createBuffer(rs, dflt, optsParam, rnd, enc) ==
    Let(MergeFirst(dflt, optsParam, rnd), LAMBDA o1 :
        Let(createRandSeed(rs, o1.seed), LAMBDA folded :
            Let(Draws(folded, 6), LAMBDA hslDraws :
                Let(hslToRgb(createHSL(hslDraws.vals)), LAMBDA rgb :
                    Let([randseed |-> hslDraws.rs,
                         defaultOptions |-> MergeColors(o1, optsParam, rgb),
                         folded |-> folded, vals |-> hslDraws.vals,
                         rgb |-> rgb, status |-> "RangeError",
                         imageData |-> <<>>, png |-> NoPng, buf |-> <<>>],
                        LAMBDA base :
                            \* Array(height) throws: Invalid array length
                            IF base.defaultOptions.size < 0 THEN base
                            ELSE Render(base, enc))))))

\* createDataURL without the '=' padding of the text
createDataURLUnpadded(rs, dflt, opts, rnd, enc) ==
    Let(createBuffer(rs, dflt, opts, rnd, enc), LAMBDA run :
        [run |-> run,
         url |-> IF run.status = "returned"
                   THEN DataUrlPrefix \o Base64Unpadded(run.buf)
                 ELSE <<>>])

\* createDataURL(opts): one createBuffer, then the prefix and the base64 text
createDataURL(rs, dflt, opts, rnd, enc) ==
    Let(createBuffer(rs, dflt, opts, rnd, enc), LAMBDA run :
        [run |-> run,
         url |-> IF run.status = "returned"
                   THEN DataUrlPrefix \o Base64(run.buf)
                 ELSE <<>>])

(***************************************************************************)
(* The inputs of the model.                                                 *)
(***************************************************************************)
SeedA == <<97>>
\* '3f2b8c1e-7a4d-4e9b-b6c5-0d1e2f3a4b5c', a uuid as the tests pass
SeedUuid ==
    <<51, 102, 50, 98, 56, 99, 49, 101, 45, 55, 97, 52, 100, 45, 52, 101, 57,
      98, 45, 98, 54, 99, 53, 45, 48, 100, 49, 101, 50, 102, 51, 97, 52, 98,
      53, 99>>
\* '0' and '11c37937e08000': Math.random() = 0 and Math.random() = 0.5
RandomSeeds ==
    {<<48>>,
     <<49, 49, 99, 51, 55, 57, 51, 55, 101, 48, 56, 48, 48, 48>>}

Blue == <<0, 0, ChannelMax>>
Red == <<ChannelMax, 0, 0>>
Green == <<0, 128, 0>>
U == <<>>

\* the arguments of the calls: valid sizes at the largest scale, a uuid seed
\* with the default size, the default scale and a random seed, a negative
\* and a zero size, and all three colours given with an empty seed
OptionValues ==
    {Opt(<<n>>, <<MaxScale>>, <<SeedA>>, U, U, U) : n \in 1..MaxSize}
    \cup {Opt(U, <<1>>, <<SeedUuid>>, U, U, U),
          Opt(<<1>>, U, U, U, U, U),
          Opt(<<-1>>, U, <<SeedA>>, U, U, U),
          Opt(<<0>>, <<1>>, <<SeedA>>, U, U, U),
          Opt(<<1>>, <<1>>, <<<<>>>>, <<Red>>, <<Blue>>, <<Green>>)}

\* the string Math.random() yields is read only when optsParam.seed is
\* undefined
RandomChoices(opts) ==
    IF opts.seed = <<>> THEN RandomSeeds ELSE {<<>>}

\* the encoder's outcome is open only for a png without sample buffer
EncodeChoices(dflt, opts) ==
    IF Nullish(opts.size, dflt.size) >= 0
       /\ Nullish(opts.size, dflt.size) * Nullish(opts.scale, dflt.scale) <= 0
      THEN {"returned", "threw"}
    ELSE {"returned"}

\* the model runs the calls whose image is at most MaxWidth pixels wide
WithinBounds(dflt, opts) ==
    Nullish(opts.size, dflt.size) * Nullish(opts.scale, dflt.scale) <= MaxWidth

\* the record of one call: its argument, the options object as the call
\* left it, what the call computed and how it ended
Entry(op, opts, run, url) ==
    [op |-> op, opts |-> opts, options |-> run.defaultOptions,
     folded |-> run.folded, vals |-> run.vals, rgb |-> run.rgb,
     imageData |-> run.imageData, png |-> run.png, status |-> run.status,
     buf |-> run.buf, url |-> url]

ZeroSeed == <<LaneOf(0), LaneOf(0), LaneOf(0), LaneOf(0)>>

(***************************************************************************)
(* Spec: the process.  The module is loaded, then createBuffer and          *)
(* createDataURL are called, one call at a time, with any of OptionValues.  *)
(***************************************************************************)
Init ==
    /\ randseed = ZeroSeed
    /\ defaultOptions = InitialDefaultOptions
    /\ log = <<>>
    /\ raster = <<>>

CreateBuffer ==
    /\ Len(log) < MaxCalls
    /\ \E opts \in OptionValues :
         /\ WithinBounds(defaultOptions, opts)
         /\ \E rnd \in RandomChoices(opts) :
            \E enc \in EncodeChoices(defaultOptions, opts) :
            \E run \in {createBuffer(randseed, defaultOptions, opts, rnd, enc)} :
                  /\ randseed' = run.randseed
                  /\ defaultOptions' = run.defaultOptions
                  /\ log' = Append(log, Entry("createBuffer", opts, run, <<>>))
    /\ UNCHANGED raster

CreateDataURL ==
    /\ Len(log) < MaxCalls
    /\ \E opts \in OptionValues :
         /\ WithinBounds(defaultOptions, opts)
         /\ \E rnd \in RandomChoices(opts) :
            \E enc \in EncodeChoices(defaultOptions, opts) :
            \E res \in {createDataURL(randseed, defaultOptions, opts, rnd, enc)} :
                  /\ randseed' = res.run.randseed
                  /\ defaultOptions' = res.run.defaultOptions
                  /\ log' = Append(log, Entry("createDataURL", opts, res.run,
                                               res.url))
    /\ UNCHANGED raster

Next == CreateBuffer \/ CreateDataURL

Spec == Init /\ [][Next]_vars

(***************************************************************************)
(* SpecEngine: the engine by itself.  Starting from the lanes as the module *)
(* creates them, the four functions that read or write randseed are applied *)
(* in any order: createRandSeed, rand, createHSL (with hslToRgb) and        *)
(* createImageData.  log records each application and its result.           *)
(***************************************************************************)
\* applications of the engine's functions in one run
MaxSteps == 3
\* createImageData is applied to the sizes 1..MaxGrid
MaxGrid == 4

EngineSeeds == {SeedA, SeedUuid}

\* the record of one application: the lanes before it, its argument (seed
\* or n) and its results (the draws made, the colour, the grid)
EngineEntry(op, seed, vals, rgb, n, data) ==
    [op |-> op, before |-> randseed, seed |-> seed, vals |-> vals,
     rgb |-> rgb, n |-> n, data |-> data]

ApplyCreateRandSeed ==
    /\ Len(log) < MaxSteps
    /\ \E seed \in EngineSeeds :
         /\ randseed' = createRandSeed(randseed, seed)
         /\ log' = Append(log, EngineEntry("createRandSeed", seed, <<>>,
                                           <<>>, 0, <<>>))
    /\ UNCHANGED <<defaultOptions, raster>>

ApplyRand ==
    /\ Len(log) < MaxSteps
    /\ \E d \in {rand(randseed)} :
         /\ randseed' = d.rs
         /\ log' = Append(log, EngineEntry("rand", <<>>, <<d.val>>, <<>>, 0,
                                           <<>>))
    /\ UNCHANGED <<defaultOptions, raster>>

ApplyCreateHSL ==
    /\ Len(log) < MaxSteps
    /\ \E d \in {Draws(randseed, 6)} :
         /\ randseed' = d.rs
         /\ log' = Append(log, EngineEntry("createHSL", <<>>, d.vals,
                                           hslToRgb(createHSL(d.vals)), 0,
                                           <<>>))
    /\ UNCHANGED <<defaultOptions, raster>>

ApplyCreateImageData ==
    /\ Len(log) < MaxSteps
    /\ \E n \in 1..MaxGrid :
       \E img \in {createImageData(randseed, n, n)} :
         /\ randseed' = img.rs
         /\ log' = Append(log, EngineEntry("createImageData", <<>>, img.vals,
                                           <<>>, n, img.data))
    /\ UNCHANGED <<defaultOptions, raster>>

NextEngine ==
    \/ ApplyCreateRandSeed
    \/ ApplyRand
    \/ ApplyCreateHSL
    \/ ApplyCreateImageData

SpecEngine == Init /\ [][NextEngine]_vars

(***************************************************************************)
(* SpecRaster: the compositor by itself, lines 128-167 of createBuffer, on  *)
(* every grid of RasterCells over the sizes 1..MaxRasterSize and the scales *)
(* 1..MaxRasterScale, with three distinct colours.                          *)
(***************************************************************************)
RasterCells == {0, 1, 2}

RasterOptions(size, scale) ==
    [scale |-> scale, size |-> size, seed |-> <<>>,
     fgColor |-> Red, bgColor |-> Blue, spotColor |-> Green]

\* the grids of size n at the scale s, not yet drawn
RasterInputs(n, s) ==
    {[options |-> RasterOptions(n, s), imageData |-> g, png |-> NoPng,
      done |-> FALSE] : g \in [1..(n * n) -> RasterCells]}

InitRaster ==
    /\ randseed = ZeroSeed
    /\ defaultOptions = InitialDefaultOptions
    /\ log = <<>>
    /\ \E n \in 1..MaxRasterSize : \E s \in 1..MaxRasterScale :
         raster \in RasterInputs(n, s)

CompositeGrid ==
    /\ ~raster.done
    /\ raster' = [raster EXCEPT
                     !.png = Composite(raster.options, raster.imageData),
                     !.done = TRUE]
    /\ UNCHANGED <<randseed, defaultOptions, log>>

NextRaster == CompositeGrid

SpecRaster == InitRaster /\ [][NextRaster]_vars

(***************************************************************************)
(* Properties.                                                              *)
(***************************************************************************)
Calls == 1..Len(log)

\* C1 (Spec): determinism across calls.  Whatever calls were made before,
\* two calls with the same options, seed included, that both return yield
\* the same bytes, the same foreground colour and the same cell grid.
C1_Determinism ==
    \A i, j \in Calls :
        (/\ log[i].opts = log[j].opts
         /\ log[i].opts.seed # U
         /\ log[i].status = "returned"
         /\ log[j].status = "returned")
        => (/\ log[i].buf = log[j].buf
            /\ log[i].rgb = log[j].rgb
            /\ log[i].imageData = log[j].imageData)

\* C2 (Spec): no leakage of options between calls.  A call that omits size,
\* scale or bgColor runs with the default of that field: size 7, scale 24,
\* bgColor [255, 255, 255].
C2_NoOptionLeak ==
    \A i \in Calls :
        /\ log[i].opts.size = U => log[i].options.size = 7
        /\ log[i].opts.scale = U => log[i].options.scale = 24
        /\ log[i].opts.bgColor = U => log[i].options.bgColor = <<255, 255, 255>>

\* the colour the claim maps a cell to
ClaimedColor(cell, options) ==
    IF cell = 0 THEN options.bgColor
    ELSE IF cell = 1 THEN options.fgColor
    ELSE options.spotColor

\* the triples <<i, x, y>>: an iteration of the x loop, for cell i and the
\* block position (x, y)
Iterations(n, s) == (0..(n * n - 1)) \X (0..(s - 1)) \X (0..(s - 1))

\* the byte offsets at which the iterations store a pixel
StoreOffsets(n, s) ==
    {PixelOffset(BlockOffset(w[1], n, n, s), w[2], w[3], n, s) :
        w \in Iterations(n, s)}

\* C3 (SpecRaster): the buffer law of the compositor.  For a grid of size N
\* and a scale S the image is N*S by N*S pixels of four bytes; the pixel
\* (py, px) holds the colour mapped from cell (py div S, px div S) and alpha
\* 255; and each pixel is stored by exactly one iteration of the loops: the
\* iterations store at distinct offsets, which are the offsets of the pixels.
C3_BufferLaw ==
    raster.done =>
        LET n == raster.options.size
            s == raster.options.scale
            data == raster.png.data
        IN  /\ raster.png.width = n * s
            /\ raster.png.height = n * s
            /\ Len(data) = 4 * (n * s) * (n * s)
            /\ \A py, px \in 0..(n * s - 1) :
                 LET o == 4 * (py * n * s + px)
                     color == ClaimedColor(
                                  raster.imageData[(py \div s) * n
                                                   + (px \div s) + 1],
                                  raster.options)
                 IN  /\ <<data[o + 1], data[o + 2], data[o + 3]>> = color
                     /\ data[o + 4] = 255
            /\ Cardinality(StoreOffsets(n, s)) = Cardinality(Iterations(n, s))
            /\ StoreOffsets(n, s) = {4 * k : k \in 0..((n * s) * (n * s) - 1)}

\* a grid of size 2 with all three cell values has been drawn at scale 2
C3_Witness ==
    /\ raster.done
    /\ raster.options.size = 2
    /\ raster.options.scale = 2
    /\ {raster.imageData[k] : k \in 1..4} = RasterCells
    /\ raster.imageData[1] # raster.imageData[2]

Steps == 1..Len(log)

\* C4 (SpecEngine): symmetry.  createImageData(N, N) returns N*N cells, row
\* by row, cell (r, c) equals cell (r, N-1-c), and it draws ceil(N/2) values
\* a row: the centre column of an odd N is drawn once and not mirrored.
C4_Symmetry ==
    \A i \in Steps :
        log[i].op = "createImageData" =>
            LET n == log[i].n
                data == log[i].data
            IN  /\ Len(data) = n * n
                /\ Len(log[i].vals) = n * ((n + 1) \div 2)
                /\ \A r, c \in 0..(n - 1) :
                     data[r * n + c + 1] = data[r * n + (n - 1 - c) + 1]

\* a grid of even size, at least 4, whose first row has two different cells
\* in its drawn half, made after a seed was folded in
C4_Witness ==
    \E i \in Steps :
        /\ log[i].op = "createImageData"
        /\ log[i].n >= 4
        /\ log[i].n % 2 = 0
        /\ log[i].data[1] # log[i].data[2]
        /\ log[i].before # ZeroSeed

\* C5 (SpecEngine): colour range.  The triple hslToRgb derives from the
\* draws of createHSL has three channels, each an integer in [0, 255].
C5_ColourRange ==
    \A i \in Steps :
        log[i].op = "createHSL" =>
            /\ Len(log[i].rgb) = 3
            /\ \A c \in 1..3 : log[i].rgb[c] \in 0..255

\* a colour that is not grey, derived from a seeded engine
C5_Witness ==
    \E i \in Steps :
        /\ log[i].op = "createHSL"
        /\ log[i].before # ZeroSeed
        /\ log[i].rgb[1] # log[i].rgb[2]
        /\ log[i].rgb[2] # log[i].rgb[3]

\* C6 (Spec): configuration errors are raised before any draw.  A call
\* whose size or scale is <= 0 ends in an error, has drawn nothing and has
\* left the lanes and the stored options as they were; every other call
\* returns.
C6_ErrorsBeforeDraw ==
    [][Len(log') = Len(log) + 1 =>
         LET e == log'[Len(log')]
             size == Nullish(e.opts.size, defaultOptions.size)
             scale == Nullish(e.opts.scale, defaultOptions.scale)
         IN  IF size <= 0 \/ scale <= 0
               THEN /\ e.status # "returned"
                    /\ e.vals = <<>>
                    /\ randseed' = randseed
                    /\ defaultOptions' = defaultOptions
             ELSE e.status = "returned"]_vars

\* 'data:image/png;base64,'
ClaimedPrefix ==
    <<100, 97, 116, 97, 58, 105, 109, 97, 103, 101, 47, 112, 110, 103, 59,
      98, 97, 115, 101, 54, 52, 44>>

\* the value of the base64 digit of char code c, -1 if c is not a digit
Base64Value(c) ==
    IF c \in 65..90 THEN c - 65
    ELSE IF c \in 97..122 THEN c - 71
    ELSE IF c \in 48..57 THEN c + 4
    ELSE IF c = 43 THEN 62
    ELSE IF c = 47 THEN 63
    ELSE -1

\* byte i of the bytes the base64 text t stands for
DecodedByte(t, i) ==
    LET g == (i - 1) \div 3
        v(k) == IF t[4 * g + k] = 61 THEN 0 ELSE Base64Value(t[4 * g + k])
        group == ((v(1) * 262144 + v(2) * 4096) + v(3) * 64) + v(4)
    IN  (group \div Pow2(16 - 8 * ((i - 1) % 3))) % 256

\* t is the padded base64 text of the bytes buf
IsBase64Of(t, buf) ==
    /\ Len(t) = 4 * ((Len(buf) + 2) \div 3)
    /\ \A k \in 1..Len(t) :
         IF k > ((4 * Len(buf) + 2) \div 3) THEN t[k] = 61
         ELSE Base64Value(t[k]) >= 0
    /\ \A i \in 1..Len(buf) : DecodedByte(t, i) = buf[i]

\* C7 (Spec): data URL format.  A createDataURL call that returns yields
\* the prefix 'data:image/png;base64,' followed by the base64 text of the
\* bytes of one createBuffer run on its options: the bytes encode the png
\* of the call, and the engine made the draws of one run, 6 for the colour
\* and ceil(size/2) a row.
C7_DataUrlFormat ==
    \A i \in Calls :
        (log[i].op = "createDataURL" /\ log[i].status = "returned") =>
            LET url == log[i].url
                size == log[i].options.size
            IN  /\ Len(url) >= Len(ClaimedPrefix)
                /\ SubSeq(url, 1, Len(ClaimedPrefix)) = ClaimedPrefix
                /\ IsBase64Of(SubSeq(url, Len(ClaimedPrefix) + 1, Len(url)),
                              log[i].buf)
                /\ log[i].buf = PngSyncWrite(log[i].png)
                /\ Len(log[i].vals) = 6 + size * ((size + 1) \div 2)
                /\ Len(log[i].imageData) = size * size

\* a createDataURL call that follows an earlier call and returns the URL of
\* an image that has pixels
C7_Witness ==
    \E i \in Calls :
        /\ i > 1
        /\ log[i].op = "createDataURL"
        /\ log[i].status = "returned"
        /\ log[i].png.data # <<>>
        /\ Len(log[i].url) > Len(ClaimedPrefix)

\* C8 (SpecEngine): draw range.  Every value rand() returns, by itself or
\* within createHSL and createImageData, is r = u / 2^31 with 0 <= r < 1,
\* u the unsigned value of lane 3 after the step.
C8_DrawRange ==
    \A i \in Steps :
        \A k \in 1..Len(log[i].vals) :
            /\ ~Unsigned(log[i].vals[k]).neg
            /\ ZLess(Unsigned(log[i].vals[k]), D)

\* a draw from lanes of which the first or the last is negative, that is
\* not zero
C8_Witness ==
    \E i \in Steps :
        /\ log[i].op = "rand"
        /\ (log[i].before[1].lo < 0 \/ log[i].before[4].lo < 0)
        /\ log[i].vals[1] # 0

\* C9 (Spec): cell values are categorical.  Every cell of the grid a call
\* hands to the colour switch is 0, 1 or 2.
C9_CellsCategorical ==
    \A i \in Calls :
        \A k \in 1..Len(log[i].imageData) : log[i].imageData[k] \in {0, 1, 2}

\* a call that returned and whose grid holds all three values
C9_Witness ==
    \E i \in Calls :
        /\ log[i].status = "returned"
        /\ {log[i].imageData[k] : k \in 1..Len(log[i].imageData)} = {0, 1, 2}

\* C10 (SpecEngine): 32-bit lanes.  After any folds and draws each of the
\* four lanes is an integer in [-2^31, 2^31 - 1].
C10_LanesInt32 ==
    \A k \in 1..4 :
        /\ randseed[k].hi = 0
        /\ randseed[k].lo >= (-Int32Max) - 1
        /\ randseed[k].lo <= Int32Max
====
